---- MODULE Spec2Model ----
(***************************************************************************)
(* wckfa-booker (src/src/main.rs): one run of the pipeline                 *)
(*   scan -> extract -> sort -> normalize each -> compose -> serialize     *)
(* as a state machine.  The file system the run touches is part of the     *)
(* state: the walk of the input directory, the temporary directory with    *)
(* its page artifacts, and the file at the output path.  Every call whose  *)
(* Result the code unwraps has two outcomes, success and panic; a panic    *)
(* unwinds main, which drops tmp_dir when it has been created.              *)
(***************************************************************************)
EXTENDS Integers, Sequences, FiniteSets, TLC

\* ---- bounds of the model ------------------------------------------------
MaxEntries == 3     \* entries yielded by the directory walk
MaxTs == 2          \* distinct capture timestamps
MaxDim == 2         \* source image width/height range 1..MaxDim

\* ---- constants of the program --------------------------------------------
TargetWidth == 1275
TargetHeight == 1650
NormPadWidth == 3       \* "page-{:03}.jpg" in main
ComposePadWidth == 3    \* "page-{:03}.jpg" in write_images_to_pdf_file

\* ---- the input -----------------------------------------------------------
\* What WalkDir yields for one entry, and, for a regular file, what the
\* extractor will find in it: the file cannot be opened, its container does
\* not parse, it has no DateTimeOriginal field, the field's text has a
\* component that is no number (or no calendar date), or the field is the
\* date-time numbered ts.
EntryKinds ==
  {[kind |-> "dir", meta |-> "none", ts |-> 0],
   [kind |-> "err", meta |-> "none", ts |-> 0]}
  \cup {[kind |-> "file", meta |-> m, ts |-> 0] :
          m \in {"openfail", "parsefail", "nofield", "badnum"}}
  \cup {[kind |-> "file", meta |-> "ok", ts |-> t] : t \in 1..MaxTs}

Walks == UNION {[1..n -> EntryKinds] : n \in 0..MaxEntries}

Dims == 1..MaxDim

VARIABLES
  entries,        \* the walk of the input directory, in WalkDir's order
  output_file,    \* the file at the output path
  pc,             \* position of main
  idx,            \* process_input_files: next entry of the walk
  v,              \* process_input_files: records collected
  scan_result,    \* what process_input_files returned: "none", "Ok", "Err"
  vals,           \* main: the records, sorted after the sort step
  tmp_dir,        \* "none", "exists", "removed", "remove_failed"
  artifacts,      \* files in the temporary directory
  total_images,
  next_page,
  working_image,  \* the image the normalizer holds between decode and save
  doc,            \* the PdfDocument: a sequence of pages
  current_page,
  current_image,
  failure,        \* what made the run panic, "none" otherwise
  exit_code,      \* -1 while running
  events          \* artifact writes, artifact reads and serializations, in order

vars == <<entries, output_file, pc, idx, v, scan_result, vals, tmp_dir,
          artifacts, total_images, next_page, working_image, doc,
          current_page, current_image, failure, exit_code, events>>

NoImage == [src |-> 0, srcw |-> 0, srch |-> 0, w |-> 0, h |-> 0,
            chan |-> "none", ops |-> <<>>]

\* ---- pure functions ------------------------------------------------------

\* Decimal digits of n, most significant first.
RECURSIVE Digits(_)
Digits(n) == IF n < 10 THEN <<n>> ELSE Append(Digits(n \div 10), n % 10)

RECURSIVE ZeroPad(_, _)
ZeroPad(d, width) == IF Len(d) >= width THEN d ELSE ZeroPad(<<0>> \o d, width)

\* format!("page-{:03}.jpg", next_page) in the normalizer: the name is
\* modelled by its digits.
NormPageName(k) == ZeroPad(Digits(k), NormPadWidth)

\* The composer's name with one digit less of padding.
ComposePageName_Pad2(k) == ZeroPad(Digits(k), ComposePadWidth - 1)

\* format!("page-{:03}.jpg", current_image) in the composer.
ComposePageName(k) == ZeroPad(Digits(k), ComposePadWidth)

\* retrieve_image_and_metadata: Err by `?` when the file does not open or the
\* container does not parse; panic by unwrap when the field is absent or a
\* component does not parse; the record otherwise.
retrieve_image_and_metadata(path, e) ==
  CASE e.meta \in {"openfail", "parsefail"} ->
         [tag |-> "Err", path |-> path, date_created |-> 0]
    [] e.meta \in {"nofield", "badnum"} ->
         [tag |-> "Panic", path |-> path, date_created |-> 0]
    [] OTHER ->
         [tag |-> "Ok", path |-> path, date_created |-> e.ts]

Record(r) == [path |-> r.path, date_created |-> r.date_created]

\* a.date_created.partial_cmp(&b.date_created): never None; "Less",
\* "Equal" or "Greater".
partial_cmp(a, b) ==
  IF a < b THEN "Less" ELSE IF a = b THEN "Equal" ELSE "Greater"

\* An insertion that puts x in front of the elements equal to it (not
\* stable).
RECURSIVE InsertUnstable(_, _)
InsertUnstable(s, x) ==
  IF s = <<>> THEN <<x>>
  ELSE IF partial_cmp(x.date_created, s[1].date_created) \in {"Less", "Equal"}
       THEN <<x>> \o s
       ELSE <<s[1]>> \o InsertUnstable(Tail(s), x)

\* One insertion of a stable sort: x goes behind every element that is not
\* greater than it.
RECURSIVE Insert(_, _)
Insert(s, x) ==
  IF s = <<>> THEN <<x>>
  ELSE IF partial_cmp(x.date_created, s[1].date_created) = "Less"
       THEN <<x>> \o s
       ELSE <<s[1]>> \o Insert(Tail(s), x)

\* vals.sort_by(..): slice::sort_by is a stable sort.
RECURSIVE sort_by(_)
sort_by(s) ==
  IF s = <<>> THEN <<>>
  ELSE Insert(sort_by(SubSeq(s, 1, Len(s) - 1)), s[Len(s)])

\* image::open(..).to_rgb8()
Decode(rec, w, h) ==
  [src |-> rec.path, srcw |-> w, srch |-> h, w |-> w, h |-> h,
   chan |-> "rgb8", ops |-> <<>>]

rotate270(i) ==
  [i EXCEPT !.w = i.h, !.h = i.w, !.ops = Append(i.ops, "rotate270")]

\* Rotation also of a square image.
Orient_NonStrict(i) == IF i.w >= i.h THEN rotate270(i) ELSE i

\* if width > height { rotate270 } else { unchanged }
Orient(i) == IF i.w > i.h THEN rotate270(i) ELSE i

grayscale(i) == [i EXCEPT !.chan = "luma8", !.ops = Append(i.ops, "grayscale")]

resize(i, nw, nh) ==
  [i EXCEPT !.w = nw, !.h = nh, !.ops = Append(i.ops, "resize")]

Normalized(rec, w, h) ==
  resize(grayscale(Orient(Decode(rec, w, h))), TargetWidth, TargetHeight)

\* A process status that ignores the panic.
ExitCode_AlwaysZero(kind) == 0

\* The process status: 0 when main returns, 101 (the status of a Rust
\* process whose main thread panicked) when it panics.
ExitCode(kind) == IF kind = "none" THEN 0 ELSE 101

\* A TempDir whose drop removes nothing.
DropTmpDir_Leak(ok) == "exists"

\* Drop for TempDir: remove_dir_all, its error ignored.
DropTmpDir(ok) == IF ok THEN "removed" ELSE "remove_failed"

\* ---- the run -------------------------------------------------------------

Init ==
  /\ entries \in Walks
  /\ output_file \in {[state |-> "absent", pages |-> <<>>],
                      [state |-> "old", pages |-> <<>>]}
  /\ pc = "scan"
  /\ idx = 1
  /\ v = <<>>
  /\ scan_result = "none"
  /\ vals = <<>>
  /\ tmp_dir = "none"
  /\ artifacts = {}
  /\ total_images = 0
  /\ next_page = 0
  /\ working_image = NoImage
  /\ doc = <<>>
  /\ current_page = 0
  /\ current_image = 0
  /\ failure = "none"
  /\ exit_code = -1
  /\ events = <<>>

\* A panic with `arts` in the temporary directory: main unwinds, tmp_dir is
\* dropped if it was created, and the process ends.
PanicWith(kind, arts) ==
  /\ pc' = "done"
  /\ failure' = kind
  /\ exit_code' = ExitCode(kind)
  /\ IF tmp_dir = "exists"
     THEN \E ok \in BOOLEAN :
            /\ tmp_dir' = DropTmpDir(ok)
            /\ artifacts' = IF tmp_dir' = "removed" THEN {} ELSE arts
     ELSE /\ tmp_dir' = tmp_dir
          /\ artifacts' = arts

Panic(kind) == PanicWith(kind, artifacts)

\* process_input_files: an entry that did not enumerate, or a directory.
ScanSkip ==
  /\ pc = "scan"
  /\ idx <= Len(entries)
  /\ entries[idx].kind \in {"err", "dir"}
  /\ idx' = idx + 1
  /\ UNCHANGED <<entries, output_file, pc, v, scan_result, vals, tmp_dir,
                 artifacts, total_images, next_page, working_image, doc,
                 current_page, current_image, failure, exit_code, events>>

ScanExtractOk ==
  /\ pc = "scan"
  /\ idx <= Len(entries)
  /\ entries[idx].kind = "file"
  /\ LET r == retrieve_image_and_metadata(idx, entries[idx]) IN
       /\ r.tag = "Ok"
       /\ v' = Append(v, Record(r))
  /\ idx' = idx + 1
  /\ UNCHANGED <<entries, output_file, pc, scan_result, vals, tmp_dir,
                 artifacts, total_images, next_page, working_image, doc,
                 current_page, current_image, failure, exit_code, events>>

\* v.push(imamd?) with imamd an Err: the function returns it, v is dropped.
ScanExtractErr ==
  /\ pc = "scan"
  /\ idx <= Len(entries)
  /\ entries[idx].kind = "file"
  /\ retrieve_image_and_metadata(idx, entries[idx]).tag = "Err"
  /\ v' = <<>>
  /\ scan_result' = "Err"
  /\ pc' = "unwrap"
  /\ UNCHANGED <<entries, output_file, idx, vals, tmp_dir,
                 artifacts, total_images, next_page, working_image, doc,
                 current_page, current_image, failure, exit_code, events>>

\* An unwrap inside the extractor panics: process_input_files never returns.
ScanExtractPanic ==
  /\ pc = "scan"
  /\ idx <= Len(entries)
  /\ entries[idx].kind = "file"
  /\ retrieve_image_and_metadata(idx, entries[idx]).tag = "Panic"
  /\ Panic("metadata_panic")
  /\ UNCHANGED <<entries, output_file, idx, v, scan_result, vals,
                 total_images, next_page, working_image, doc,
                 current_page, current_image, events>>

ScanReturn ==
  /\ pc = "scan"
  /\ idx > Len(entries)
  /\ scan_result' = "Ok"
  /\ pc' = "unwrap"
  /\ UNCHANGED <<entries, output_file, idx, v, vals, tmp_dir,
                 artifacts, total_images, next_page, working_image, doc,
                 current_page, current_image, failure, exit_code, events>>

\* let mut vals = vals_option.unwrap();
MainUnwrap ==
  /\ pc = "unwrap"
  /\ IF scan_result = "Ok"
     THEN /\ vals' = v
          /\ pc' = "sort"
          /\ UNCHANGED <<tmp_dir, artifacts, failure, exit_code>>
     ELSE /\ Panic("metadata_err")
          /\ UNCHANGED vals
  /\ UNCHANGED <<entries, output_file, idx, v, scan_result,
                 total_images, next_page, working_image, doc,
                 current_page, current_image, events>>

\* vals.sort_by(|a, b| a.date_created.partial_cmp(&b.date_created).unwrap()):
\* the unwrap panics on a comparison without a result.
Sort ==
  /\ pc = "sort"
  /\ IF \A i \in 1..Len(vals) : \A j \in 1..Len(vals) :
          partial_cmp(vals[i].date_created, vals[j].date_created) # "None"
     THEN /\ vals' = sort_by(vals)
          /\ pc' = "tmpdir"
          /\ UNCHANGED <<tmp_dir, artifacts, failure, exit_code>>
     ELSE /\ Panic("sort")
          /\ UNCHANGED vals
  /\ UNCHANGED <<entries, output_file, idx, v, scan_result,
                 total_images, next_page, working_image, doc,
                 current_page, current_image, events>>

\* TempDir::new(..).unwrap(); total_images; next_page = 1
CreateTmpDir ==
  /\ pc = "tmpdir"
  /\ \E ok \in BOOLEAN :
       IF ok
       THEN /\ tmp_dir' = "exists"
            /\ total_images' = Len(vals)
            /\ next_page' = 1
            /\ pc' = "normalize"
            /\ UNCHANGED <<artifacts, failure, exit_code>>
       ELSE /\ Panic("tmpdir_create")
            /\ UNCHANGED <<total_images, next_page>>
  /\ UNCHANGED <<entries, output_file, idx, v, scan_result, vals,
                 working_image, doc, current_page, current_image, events>>

\* One iteration of the loop up to the resized image: progress line, decode,
\* rotate if landscape, grayscale, resize.
NormalizeDecode ==
  /\ pc = "normalize"
  /\ next_page <= Len(vals)
  /\ \E r \in {"ok", "stdout", "decode"}, w \in Dims, h \in Dims :
       IF r = "ok"
       THEN /\ working_image' = Normalized(vals[next_page], w, h)
            /\ pc' = "save"
            /\ UNCHANGED <<tmp_dir, artifacts, failure, exit_code>>
       ELSE /\ Panic(r)
            /\ UNCHANGED working_image
  /\ UNCHANGED <<entries, output_file, idx, v, scan_result, vals,
                 total_images, next_page, doc, current_page, current_image,
                 events>>

Artifact(name, i) ==
  [name |-> name, src |-> i.src, w |-> i.w, h |-> i.h, chan |-> i.chan]

WriteArtifact(arts, a) == {x \in arts : x.name # a.name} \cup {a}

\* The rest of the iteration: save the artifact, count the page, progress
\* line.
NormalizeSave ==
  /\ pc = "save"
  /\ LET name == NormPageName(next_page)
         written == WriteArtifact(artifacts, Artifact(name, working_image))
         ev == Append(events, [op |-> "write", k |-> next_page, name |-> name])
     IN \E r \in {"ok", "artifact_write", "stdout"} :
          CASE r = "ok" ->
                 /\ artifacts' = written
                 /\ events' = ev
                 /\ next_page' = next_page + 1
                 /\ working_image' = NoImage
                 /\ pc' = "normalize"
                 /\ UNCHANGED <<tmp_dir, failure, exit_code>>
            [] r = "artifact_write" ->
                 /\ Panic(r)
                 /\ UNCHANGED <<events, next_page, working_image>>
            [] OTHER ->
                 /\ PanicWith(r, written)
                 /\ events' = ev
                 /\ next_page' = next_page + 1
                 /\ UNCHANGED working_image
  /\ UNCHANGED <<entries, output_file, idx, v, scan_result, vals,
                 total_images, doc, current_page, current_image>>

EmptyPage == [images |-> <<>>]

\* The loop is over; write_images_to_pdf_file starts: PdfDocument::new makes
\* the document with its first page, current_image = 1.
ComposeBegin ==
  /\ pc = "normalize"
  /\ next_page > Len(vals)
  /\ doc' = <<EmptyPage>>
  /\ current_page' = 1
  /\ current_image' = 1
  /\ pc' = "compose"
  /\ UNCHANGED <<entries, output_file, idx, v, scan_result, vals, tmp_dir,
                 artifacts, total_images, next_page, working_image,
                 failure, exit_code, events>>

Placed(a) == [src |-> a.src, w |-> a.w, h |-> a.h, chan |-> a.chan,
              x |-> 2, y |-> 2]

AddToLayer(d, p, a) ==
  [d EXCEPT ![p] = [images |-> Append(d[p].images, Placed(a))]]

\* One iteration of the composer's loop.
ComposeStep ==
  /\ pc = "compose"
  /\ current_image <= total_images
  /\ LET name == ComposePageName(current_image)
         found == {a \in artifacts : a.name = name}
     IN /\ events' = Append(events,
                       [op |-> "read", k |-> current_image, name |-> name])
        /\ \E r \in {"ok", "stdout", "artifact_open", "artifact_decode"} :
             IF r = "ok"
             THEN /\ found # {}
                  /\ LET a == CHOOSE x \in found : TRUE
                         d == AddToLayer(doc, current_page, a)
                     IN IF current_image + 1 <= total_images
                        THEN /\ doc' = Append(d, EmptyPage)
                             /\ current_page' = Len(d) + 1
                        ELSE /\ doc' = d
                             /\ current_page' = current_page
                  /\ current_image' = current_image + 1
                  /\ UNCHANGED <<pc, tmp_dir, artifacts, failure, exit_code>>
             ELSE /\ Panic(r)
                  /\ UNCHANGED <<doc, current_page, current_image>>
  /\ UNCHANGED <<entries, output_file, idx, v, scan_result, vals,
                 total_images, next_page, working_image>>

\* File::create(output_file).unwrap(): the argument of doc.save, evaluated
\* before the document is serialized.
OutputCreate ==
  /\ pc = "compose"
  /\ current_image > total_images
  /\ \E ok \in BOOLEAN :
       IF ok
       THEN /\ output_file' = [state |-> "truncated", pages |-> <<>>]
            /\ pc' = "serialize"
            /\ UNCHANGED <<tmp_dir, artifacts, failure, exit_code>>
       ELSE /\ Panic("output_create")
            /\ UNCHANGED output_file
  /\ UNCHANGED <<entries, idx, v, scan_result, vals, total_images, next_page,
                 working_image, doc, current_page, current_image, events>>

\* doc.save(..).unwrap() into the file just created.
OutputSave ==
  /\ pc = "serialize"
  /\ events' = Append(events, [op |-> "serialize", k |-> 0, name |-> <<>>])
  /\ \E r \in {"ok", "truncated", "partial"} :
       IF r = "ok"
       THEN /\ output_file' = [state |-> "written", pages |-> doc]
            /\ pc' = "close"
            /\ UNCHANGED <<tmp_dir, artifacts, failure, exit_code>>
       ELSE /\ output_file' = [state |-> r, pages |-> <<>>]
            /\ Panic("serialize")
  /\ UNCHANGED <<entries, idx, v, scan_result, vals, total_images, next_page,
                 working_image, doc, current_page, current_image>>

\* tmp_dir.close().unwrap(): close removes the directory and gives the
\* TempDir up, so a failed removal is not tried again on unwinding.
CloseTmpDir ==
  /\ pc = "close"
  /\ \E ok \in BOOLEAN :
       /\ tmp_dir' = IF ok THEN "removed" ELSE "remove_failed"
       /\ artifacts' = IF ok THEN {} ELSE artifacts
       /\ failure' = IF ok THEN "none" ELSE "tmpdir_remove"
       /\ exit_code' = ExitCode(failure')
  /\ pc' = "done"
  /\ UNCHANGED <<entries, output_file, idx, v, scan_result, vals,
                 total_images, next_page, working_image, doc, current_page,
                 current_image, events>>

Next ==
  \/ ScanSkip
  \/ ScanExtractOk
  \/ ScanExtractErr
  \/ ScanExtractPanic
  \/ ScanReturn
  \/ MainUnwrap
  \/ Sort
  \/ CreateTmpDir
  \/ NormalizeDecode
  \/ NormalizeSave
  \/ ComposeBegin
  \/ ComposeStep
  \/ OutputCreate
  \/ OutputSave
  \/ CloseTmpDir

Spec == Init /\ [][Next]_vars

\* ---- properties ----------------------------------------------------------

FileIndices == {i \in 1..Len(entries) : entries[i].kind = "file"}

AllFilesValid == \A i \in FileIndices : entries[i].meta = "ok"

\* The records of the candidate files among the first n entries, in the
\* walk's order.
RECURSIVE RecordsUpTo(_)
RecordsUpTo(n) ==
  IF n = 0 THEN <<>>
  ELSE IF entries[n].kind = "file"
       THEN Append(RecordsUpTo(n - 1),
                   [path |-> n, date_created |-> entries[n].ts])
       ELSE RecordsUpTo(n - 1)

NonDecreasing(s) ==
  \A i \in 1..(Len(s) - 1) : s[i].date_created <= s[i + 1].date_created

IsPermutation(s, t) ==
  /\ Len(s) = Len(t)
  /\ \A x \in {s[i] : i \in 1..Len(s)} \cup {t[i] : i \in 1..Len(t)} :
       Cardinality({i \in 1..Len(s) : s[i] = x})
         = Cardinality({i \in 1..Len(t) : t[i] = x})

PositionIn(s, x) == CHOOSE i \in 1..Len(s) : s[i] = x

\* Records with equal timestamps stand in s in the order they have in t.
KeepsScanOrder(s, t) ==
  \A i \in 1..Len(s) : \A j \in 1..Len(s) :
    (i < j /\ s[i].date_created = s[j].date_created)
      => PositionIn(t, s[i]) < PositionIn(t, s[j])

\* Page p of document d holds exactly the normalized image of record rec.
HoldsNormalized(p, rec) ==
  /\ Len(p.images) = 1
  /\ p.images[1].src = rec.path
  /\ p.images[1].w = TargetWidth
  /\ p.images[1].h = TargetHeight
  /\ p.images[1].chan = "luma8"

\* C1: when every regular file has valid capture-time metadata, a completed
\* run has written a document with as many pages as the scan found files
\* (zero included), and page k holds the normalized image of the k-th record
\* in non-decreasing timestamp order.
C1_PagesMatchScan ==
  (pc = "done" /\ exit_code = 0 /\ AllFilesValid)
    => /\ output_file.state = "written"
       /\ Len(output_file.pages) = Cardinality(FileIndices)
       /\ Len(vals) = Cardinality(FileIndices)
       /\ NonDecreasing(vals)
       /\ \A k \in 1..Len(vals) :
            /\ k <= Len(output_file.pages)
            /\ HoldsNormalized(output_file.pages[k], vals[k])

\* C2: when some regular file lacks the capture-time field, the run ends
\* with a MetadataError, an error value the extractor returned and the
\* scanner propagated, and no file exists at the output path.
C2_MissingFieldIsMetadataError ==
  (pc = "done" /\ \E i \in FileIndices : entries[i].meta = "nofield")
    => /\ scan_result = "Err"
       /\ failure = "metadata_err"
       /\ output_file.state = "absent"

FatalKinds == {"metadata_err", "metadata_panic", "decode", "artifact_write",
               "artifact_open", "artifact_decode", "output_create",
               "serialize"}

\* C3: a run that ends in a metadata, decode, artifact write, compose or
\* serialization failure leaves the output path untouched: the file there
\* is not created, truncated or partially written.
C3_NoPartialOutputOnFailure ==
  (pc = "done" /\ failure \in FatalKinds)
    => output_file.state \in {"absent", "old"}

\* C4 (as claimed): on every exit path of a run that created the working
\* directory, the directory and its artifacts are gone when the process
\* ends.
C4_TmpDirAlwaysRemoved ==
  (pc = "done" /\ tmp_dir # "none")
    => (tmp_dir = "removed" /\ artifacts = {})

\* C4 (amended): on every exit path of a run that created the working
\* directory its removal has been attempted when the process ends; the
\* directory and its artifacts are gone unless that removal itself failed,
\* and a run that exits zero has removed them.
C4_TmpDirRemovalAttempted ==
  (pc = "done" /\ tmp_dir # "none")
    => /\ tmp_dir \in {"removed", "remove_failed"}
       /\ (tmp_dir = "removed" => artifacts = {})
       /\ (exit_code = 0 => tmp_dir = "removed")
       /\ (tmp_dir = "remove_failed" => failure # "none")

\* A run that aborted in composition, after artifacts were written, and
\* whose working directory is gone.
C4_Witness ==
  /\ pc = "done"
  /\ failure \in {"artifact_open", "artifact_decode"}
  /\ Len(events) >= 2
  /\ tmp_dir = "removed"
  /\ artifacts = {}

\* C5: the scanner skips directories and entries that did not enumerate
\* without failing, calls the extractor on every other entry, at the first
\* extractor failure returns that failure and no records, and returns the
\* records, one per candidate, only when every candidate was extracted.
C5_ScannerPolicy ==
  /\ pc = "scan" => (scan_result = "none" /\ v = RecordsUpTo(idx - 1))
  /\ pc # "scan" =>
       IF AllFilesValid
       THEN scan_result = "Ok" /\ v = RecordsUpTo(Len(entries))
       ELSE scan_result = "Err" /\ v = <<>>

\* C6 (as claimed): the process exits non-zero whenever a stage fails and
\* zero whenever the output file has been successfully written.
C6_ExitZeroIffWritten ==
  pc = "done"
    => /\ (failure # "none" => exit_code # 0)
       /\ (output_file.state = "written" => exit_code = 0)

\* C6 (amended): the process exits non-zero whenever a stage fails, and zero
\* whenever the output file has been successfully written and the working
\* directory was then removed; when the removal fails after the write the
\* exit is non-zero.
C6_ExitZeroIffWrittenAndClosed ==
  pc = "done"
    => /\ (failure # "none" => exit_code # 0)
       /\ (output_file.state = "written" /\ tmp_dir = "removed"
             => exit_code = 0)
       /\ (output_file.state = "written" /\ tmp_dir # "removed"
             => (exit_code # 0 /\ failure = "tmpdir_remove"))
       /\ (exit_code = 0 => output_file.state = "written")

\* A run that wrote a document of at least one image and exited zero.
C6_Witness ==
  /\ pc = "done"
  /\ output_file.state = "written"
  /\ exit_code = 0
  /\ Len(vals) >= 1

\* C7: when the scan finds no image, the run fails with a non-zero exit or
\* the document it writes has zero pages.
C7_EmptyScanNoPages ==
  (pc = "done" /\ scan_result = "Ok" /\ Len(v) = 0)
    => (exit_code # 0 \/ Len(output_file.pages) = 0)

\* C8: after the sort step the records are a permutation of the scanned
\* ones, every adjacent pair is in non-decreasing timestamp order, records
\* of equal timestamp keep their scan order, and the sort step has not
\* failed.
C8_SortStableNonDecreasing ==
  (scan_result = "Ok" /\ pc \notin {"unwrap", "sort"})
    => /\ Len(vals) = Len(v)
       /\ IsPermutation(vals, v)
       /\ NonDecreasing(vals)
       /\ KeepsScanOrder(vals, v)
       /\ failure # "sort"

\* The sort has just moved a record, with two records of equal timestamp.
C8_Witness ==
  /\ pc = "tmpdir"
  /\ vals # v
  /\ \E i \in 1..Len(vals) : \E j \in 1..Len(vals) :
       i < j /\ vals[i].date_created = vals[j].date_created

Writes == SelectSeq(events, LAMBDA e : e.op = "write")
Reads == SelectSeq(events, LAMBDA e : e.op = "read")
Serializes == SelectSeq(events, LAMBDA e : e.op = "serialize")

\* C9: artifact k is written before artifact k+1, all N artifacts are
\* written before the composer reads any, the composer reads them in order
\* 1..N under the names the normalizer wrote, and the document is
\* serialized at most once, last, after artifact N has been inserted (once
\* exactly in a run that succeeds).
C9_StrictOrder ==
  /\ \A i \in 1..Len(Writes) : Writes[i].k = i
  /\ \A i \in 1..Len(Reads) :
       /\ Reads[i].k = i
       /\ i <= Len(Writes)
       /\ Reads[i].name = Writes[i].name
  /\ \A i \in 1..Len(events) : \A j \in 1..Len(events) :
       (events[i].op = "read" /\ events[j].op = "write") => j < i
  /\ Reads # <<>> => Len(Writes) = total_images
  /\ Len(Serializes) <= 1
  /\ Serializes # <<>> =>
       /\ events[Len(events)].op = "serialize"
       /\ Len(Reads) = total_images
       /\ Len(Writes) = total_images
       /\ total_images >= 1 =>
            (Len(doc) = total_images /\ doc[total_images].images # <<>>)
  /\ (pc = "done" /\ exit_code = 0) => Len(Serializes) = 1

\* A successful run over two images or more.
C9_Witness ==
  /\ pc = "done"
  /\ exit_code = 0
  /\ total_images >= 2
  /\ Len(Serializes) = 1

\* C10: the normalizer rotates by 270 degrees exactly when the source is
\* wider than tall (a square source is not rotated), rotates before it
\* converts to grayscale and resizes, and every artifact it persists is
\* 1275x1650.
C10_RotateIffLandscape ==
  /\ pc = "save" =>
       /\ working_image.ops =
            (IF working_image.srcw > working_image.srch
             THEN <<"rotate270", "grayscale", "resize">>
             ELSE <<"grayscale", "resize">>)
       /\ working_image.w = TargetWidth
       /\ working_image.h = TargetHeight
  /\ \A a \in artifacts : a.w = TargetWidth /\ a.h = TargetHeight

\* A square source, not rotated, about to be saved after an earlier
\* artifact was persisted.
C10_Witness ==
  /\ pc = "save"
  /\ working_image.srcw = working_image.srch
  /\ working_image.ops = <<"grayscale", "resize">>
  /\ artifacts # {}

====
